---- MODULE Spec2Model ----
(***************************************************************************)
(* A model of pgmpy's MarkovModel (pgmpy/models/MarkovModel.py): an        *)
(* undirected graph over random variables with a list of factors, and its  *)
(* two conversions, to_factor_graph and to_junction_tree.                  *)
(*                                                                         *)
(* Variables are Python strings (to_factor_graph joins them with '_').     *)
(* A factor is modelled by its ordered variable list only: no operation of *)
(* MarkovModel.py reads a factor's cardinalities or values.                *)
(* An undirected edge is the set of its endpoints, so a self loop on u is  *)
(* the one-element set {u}.  A clique tuple is modelled by the set of its  *)
(* members: the code only ever reads set(clique).                          *)
(***************************************************************************)
EXTENDS Integers, Sequences, FiniteSets, TLC

VARIABLES nodes, edges, factors, result

vars == <<nodes, edges, factors, result>>

\* The variable names the calls draw their arguments from.
Vars == {"a", "b", "a_b"}

\* One variable more, for models with three cliques that share variables.
TreeVars == Vars \cup {"c"}

\* Longest factor list a model is grown to.
MaxFactors == 2

\* Most factors passed to one add_factors(*factors) call.
MaxArgs == 2

Range(s) == {s[i] : i \in DOMAIN s}

\* Unary and pairwise scopes over U: ordered lists of distinct variables.
ScopesOver(U) ==
    {<<v>> : v \in U} \cup {<<p[1], p[2]>> : p \in {q \in U \X U : q[1] # q[2]}}

\* Factor(variables, cardinality, values), reduced to its variable list.
Factor(variables) == [variables |-> variables]

FactorsOver(U) == {Factor(s) : s \in ScopesOver(U)}

\* Factor.scope(): the factor's variable list.
scope(factor) == factor.variables

\* The non-empty argument lists of one add_factors call.
ArgsOver(U) == UNION {[1..n -> FactorsOver(U)] : n \in 1..MaxArgs}

(***************************************************************************)
(* The result of the last call: the call, its arguments, the exception it  *)
(* raised ("none" when it returned) and the structure it returned.         *)
(***************************************************************************)
EmptyGraph == [nodes |-> {}, edges |-> {}, factors |-> <<>>, factor_nodes |-> <<>>]

EmptyTree == [nodes |-> {}, edges |-> {}, factors |-> {}, cliques |-> {}]

Call(op, u, v, args, err, fg, jt) ==
    [op |-> op, u |-> u, v |-> v, args |-> args, err |-> err, fg |-> fg, jt |-> jt]

\* The messages of the ValueErrors MarkovModel.py raises, and the other
\* exceptions its calls can end in.
SelfLoopError == "Self loops are not allowed"
ScopeError == "Factors defined on variable not in the model"
NoFactorsError == "Factors not associated with the random variables."
IncompleteFactorizationError == "Factor for all the random variables not specified"
IndexError == "list index out of range"
MarginalizeError == "variable not in scope"

\* MarkovModel(): an empty graph with no factors.
Init ==
    /\ nodes = {}
    /\ edges = {}
    /\ factors = <<>>
    /\ result = Call("init", "", "", <<>>, "none", EmptyGraph, EmptyTree)

(***************************************************************************)
(* Graph construction                                                      *)
(***************************************************************************)

\* UndirectedGraph.add_node (networkx Graph.add_node)
add_node(n) ==
    /\ nodes' = nodes \cup {n}
    /\ result' = Call("add_node", n, n, <<>>, "none", EmptyGraph, EmptyTree)
    /\ UNCHANGED <<edges, factors>>

\* The guard of MarkovModel.add_edge without its self-loop check.
NoSelfLoopCheck(u, v) == TRUE

\* MarkovModel.add_edge: "check that there is no self loop".
NotSelfLoop(u, v) == u # v

\* UndirectedGraph.add_edge (networkx Graph.add_edge): both endpoints become
\* nodes and the edge is stored.
BaseAddEdge(u, v) ==
    /\ nodes' = nodes \cup {u, v}
    /\ edges' = edges \cup {{u, v}}

\* MarkovModel.add_edge
add_edge(u, v) ==
    /\ IF NotSelfLoop(u, v)
       THEN /\ BaseAddEdge(u, v)
            /\ result' = Call("add_edge", u, v, <<>>, "none", EmptyGraph, EmptyTree)
       ELSE /\ result' = Call("add_edge", u, v, <<>>, SelfLoopError, EmptyGraph, EmptyTree)
            /\ UNCHANGED <<nodes, edges>>
    /\ UNCHANGED factors

NextGraph ==
    \/ \E n \in Vars : add_node(n)
    \/ \E u \in Vars, v \in Vars : add_edge(u, v)

\* The graph operations alone.
SpecGraph == Init /\ [][NextGraph]_vars

(***************************************************************************)
(* Factors                                                                 *)
(***************************************************************************)

\* A scope check that raises only when no variable of the factor is a node.
DisjointFromModel(factor, ns) ==
    Range(factor.variables) \cap ns = {}

\* MarkovModel.add_factors: the condition under which it raises,
\* set(factor.variables) - set(factor.variables).intersection(set(self.nodes()))
OutsideModel(factor, ns) ==
    Range(factor.variables) \ (Range(factor.variables) \cap ns) # {}

\* UndirectedGraph.add_factors: the factor is appended to self.factors.
BaseAddFactors(fs, factor) == Append(fs, factor)

\* The loop of MarkovModel.add_factors over its arguments from the i-th on:
\* the first factor outside the model raises, the ones before it stay appended.
RECURSIVE AddFactorsLoop(_, _, _)
AddFactorsLoop(args, i, fs) ==
    IF i > Len(args) THEN [factors |-> fs, err |-> "none"]
    ELSE IF OutsideModel(args[i], nodes) THEN [factors |-> fs, err |-> ScopeError]
    ELSE AddFactorsLoop(args, i + 1, BaseAddFactors(fs, args[i]))

\* MarkovModel.add_factors(*factors)
add_factors(args) ==
    /\ Len(factors) + Len(args) <= MaxFactors
    /\ LET out == AddFactorsLoop(args, 1, factors)
       IN /\ factors' = out.factors
          /\ result' = Call("add_factors", "", "", args, out.err, EmptyGraph, EmptyTree)
    /\ UNCHANGED <<nodes, edges>>

\* UndirectedGraph.get_factors
get_factors == factors

NextFactors ==
    \/ \E n \in Vars : add_node(n)
    \/ \E args \in ArgsOver(Vars) : add_factors(args)

\* The node set and the factor list, without edges and conversions.
SpecFactors == Init /\ [][NextFactors]_vars

(***************************************************************************)
(* to_factor_graph                                                         *)
(***************************************************************************)

\* '_'.join(scope)
RECURSIVE Join(_)
Join(s) ==
    IF Len(s) = 0 THEN ""
    ELSE IF Len(s) = 1 THEN s[1]
    ELSE s[1] \o "_" \o Join(Tail(s))

\* factor_node = 'phi_' + '_'.join(scope)
FactorNodeName(factor) == "phi_" \o Join(scope(factor))

\* FactorGraph.add_edges_from(itertools.product(scope, [factor_node])) and
\* FactorGraph.add_factors(factor): one pass of the loop of to_factor_graph.
\* factor_nodes records the node each factor of the graph was given.
AddFactorNode(fg, factor) ==
    LET factor_node == FactorNodeName(factor)
    IN [nodes |-> fg.nodes \cup Range(scope(factor)) \cup {factor_node},
        edges |-> fg.edges \cup {{x, factor_node} : x \in Range(scope(factor))},
        factors |-> Append(fg.factors, factor),
        factor_nodes |-> Append(fg.factor_nodes, factor_node)]

\* The loop of to_factor_graph over self.factors from the i-th on.
RECURSIVE FactorGraphLoop(_, _)
FactorGraphLoop(fg, i) ==
    IF i > Len(factors) THEN fg
    ELSE FactorGraphLoop(AddFactorNode(fg, factors[i]), i + 1)

\* MarkovModel.to_factor_graph
to_factor_graph ==
    /\ IF factors = <<>>
       THEN result' = Call("to_factor_graph", "", "", <<>>, NoFactorsError,
                           EmptyGraph, EmptyTree)
       ELSE result' = Call("to_factor_graph", "", "", <<>>, "none",
                           FactorGraphLoop([EmptyGraph EXCEPT !.nodes = nodes], 1),
                           EmptyTree)
    /\ UNCHANGED <<nodes, edges, factors>>

\* The neighbours of node n in a graph whose edges are sets of endpoints.
Neighbors(es, n) == {m \in UNION es : {n, m} \in es /\ m # n}

(***************************************************************************)
(* to_junction_tree                                                        *)
(***************************************************************************)

IsClique(c, es) == \A x \in c, y \in c : x # y => {x, y} \in es

\* A graph is chordal iff it has a perfect elimination ordering: some vertex
\* whose neighbours form a clique can be removed, leaving a chordal graph.
RECURSIVE IsChordal(_, _)
IsChordal(ns, es) ==
    \/ ns = {}
    \/ \E x \in ns :
          /\ IsClique(Neighbors(es, x) \cap ns, es)
          /\ IsChordal(ns \ {x}, es)

\* The chordal graphs on ns that add the edges of fill to es.
ChordalFills(ns, es) ==
    {fill \in SUBSET ({{x, y} : x \in ns, y \in ns} \ (es \cup {{x} : x \in ns})) :
        IsChordal(ns, es \cup fill)}

\* UndirectedGraph.triangulate: the edge sets of the chordal completions of
\* the graph that add no edge beyond need (a chordal graph is returned as it
\* is).  Which completion the heuristic picks is left open.
triangulate(ns, es) ==
    {es \cup fill : fill \in
        {f \in ChordalFills(ns, es) :
            \A g \in ChordalFills(ns, es) : ~(g \subseteq f /\ g # f)}}

\* nx.find_cliques: the maximal cliques of the graph (an isolated node is a
\* clique of its own).
find_cliques(ns, es) ==
    {c \in SUBSET ns \ {{}} :
        /\ IsClique(c, es)
        /\ \A x \in ns \ c : ~IsClique(c \cup {x}, es)}

\* list(...) of the cliques: the orders find_cliques may yield them in.
Orderings(S) == {s \in [1..Cardinality(S) -> S] : Range(s) = S}

\* The weight the code gives the pair (A, B) of itertools.combinations:
\* len(set(x[0]) - set(x[1])), negated when the edge is added.
Weight(A, B) == -Cardinality(A \ B)

\* complete_graph: one weighted edge per pair of cliques, the first clique of
\* the pair being the earlier one in the list.
CompleteGraph(cliques) ==
    {[edge |-> {cliques[p[1]], cliques[p[2]]},
      weight |-> Weight(cliques[p[1]], cliques[p[2]])] :
        p \in {q \in (1..Len(cliques)) \X (1..Len(cliques)) : q[1] < q[2]}}

\* The nodes a set of edges touches.
Endpoints(es) == UNION es

\* The nodes reachable from the nodes of seen along the edges es.
RECURSIVE Reach(_, _)
Reach(seen, es) ==
    LET more == seen \cup UNION {e \in es : e \cap seen # {}}
    IN IF more = seen THEN seen ELSE Reach(more, es)

\* es joins all of ns into one component.
Connected(ns, es) ==
    \/ ns = {}
    \/ \E x \in ns : Reach({x}, es) = ns

\* The spanning trees of the graph on ns with edges es.
SpanningTrees(ns, es) ==
    {t \in SUBSET es :
        /\ Cardinality(t) = (IF ns = {} THEN 0 ELSE Cardinality(ns) - 1)
        /\ Connected(ns, t)}

RECURSIVE SumOver(_, _)
SumOver(S, val) ==
    IF S = {} THEN 0
    ELSE LET x == CHOOSE y \in S : TRUE
         IN val[x] + SumOver(S \ {x}, val)

\* The total weight of the tree t of the weighted graph g.
TreeWeight(t, g) ==
    SumOver(t, [e \in t |-> (CHOOSE w \in g : w.edge = e).weight])

\* nx.minimum_spanning_tree(complete_graph).edges(): a spanning tree of least
\* total weight; which one among equals depends on the order Kruskal's
\* algorithm meets the edges in.
minimum_spanning_tree(g) ==
    LET es == {w.edge : w \in g}
        trees == SpanningTrees(Endpoints(es), es)
    IN {t \in trees : \A o \in trees : TreeWeight(t, g) <= TreeWeight(o, g)}

\* Factor.product of two factors: the scope of the product is the first
\* scope followed by the variables only the second has.
Product(f, g) ==
    LET New(x) == x \notin Range(f.variables)
    IN Factor(f.variables \o SelectSeq(g.variables, New))

\* factor.product(*[self.factors[i] for i in range(1, len(self.factors))])
RECURSIVE ProductFrom(_, _, _)
ProductFrom(f, fs, i) ==
    IF i > Len(fs) THEN f ELSE ProductFrom(Product(f, fs[i]), fs, i + 1)

\* Factor.marginalize(variables, inplace=False): the factor without the
\* variables summed out; it raises when one of them is not in its scope.
CanMarginalize(f, vs) == vs \subseteq Range(f.variables)

Marginalize(f, vs) ==
    LET Kept(x) == x \notin vs
    IN Factor(SelectSeq(f.variables, Kept))

\* JunctionTree(edges): the tree's nodes are the endpoints of its edges.
JunctionTree(es) == [nodes |-> Endpoints(es), edges |-> es]

\* The rest of to_junction_tree once the spanning tree is chosen: the joint
\* factor, the check of its scope (whose ValueError is built, not raised),
\* and the marginal of the joint on every node of the tree.
JunctionTreeResult(cliques, tree_edges) ==
    LET clique_trees == JunctionTree(tree_edges)
    IN IF factors = <<>>
       THEN Call("to_junction_tree", "", "", <<>>, IndexError, EmptyGraph, EmptyTree)
       ELSE LET factor == ProductFrom(factors[1], factors, 2)
                all_vars == nodes
            IN IF \E node \in clique_trees.nodes :
                        ~CanMarginalize(factor, all_vars \ node)
               THEN Call("to_junction_tree", "", "", <<>>, MarginalizeError,
                         EmptyGraph, EmptyTree)
               ELSE Call("to_junction_tree", "", "", <<>>, "none", EmptyGraph,
                         [nodes |-> clique_trees.nodes,
                          edges |-> clique_trees.edges,
                          factors |-> {[node |-> node,
                                        factor |-> Marginalize(factor, all_vars \ node)] :
                                            node \in clique_trees.nodes},
                          cliques |-> Range(cliques)])

\* Lines 204-219 of to_junction_tree, which read the graph alone: the
\* triangulation, the list of its maximal cliques and the spanning tree of
\* the complete graph over them.  Every choice the three library calls leave
\* open is an outcome.
CliqueTrees(ns, es) ==
    UNION {UNION {{[cliques |-> cliques, tree_edges |-> tree_edges] :
                      tree_edges \in minimum_spanning_tree(CompleteGraph(cliques))} :
                  cliques \in Orderings(find_cliques(ns, triangulated_graph))} :
           triangulated_graph \in triangulate(ns, es)}

\* The graphs a model over TreeVars can hold.
Graphs ==
    UNION {{[nodes |-> ns, edges |-> es] :
               es \in SUBSET {e \in SUBSET ns : Cardinality(e) = 2}} :
           ns \in SUBSET TreeVars}

\* CliqueTrees of every graph, computed once.
CliqueTreeTable == [g \in Graphs |-> CliqueTrees(g.nodes, g.edges)]

\* MarkovModel.to_junction_tree
to_junction_tree ==
    /\ \E choice \in CliqueTreeTable[[nodes |-> nodes, edges |-> edges]] :
          result' = JunctionTreeResult(choice.cliques, choice.tree_edges)
    /\ UNCHANGED <<nodes, edges, factors>>

Next ==
    \/ \E n \in Vars : add_node(n)
    \/ \E u \in Vars, v \in Vars : add_edge(u, v)
    \/ \E args \in ArgsOver(Vars) : add_factors(args)
    \/ to_factor_graph
    \/ to_junction_tree

Spec == Init /\ [][Next]_vars

NextTree ==
    \/ \E u \in TreeVars, v \in TreeVars : add_edge(u, v)
    \/ \E args \in ArgsOver(TreeVars) : add_factors(args)
    \/ to_junction_tree

\* Models grown edge by edge, as in the example of to_junction_tree's
\* docstring, and their junction trees.
SpecTree == Init /\ [][NextTree]_vars

(***************************************************************************)
(* Properties                                                              *)
(***************************************************************************)

Returned(op) == result.op = op /\ result.err = "none"

\* The union of the scopes of the registered factors: the scope of their
\* product.
ScopeUnion == UNION {Range(scope(factors[i])) : i \in DOMAIN factors}

\* Node c lies on the path from a to b of the tree with edges es: it is an
\* end of the path, or the tree without c no longer joins a to b.
OnPath(es, a, b, c) ==
    \/ c \in {a, b}
    \/ b \notin Reach({a}, {e \in es : c \notin e})

\* The shared-variable overlap of a set of clique-tree edges, summed.
Overlap(es) ==
    SumOver(es, [e \in es |-> Cardinality({x \in TreeVars : \A n \in e : x \in n})])

\* The edges of the complete graph over the cliques.
CliquePairs(cliques) == {e \in SUBSET cliques : Cardinality(e) = 2}

\* C1: in a junction tree that to_junction_tree returns, every node on the
\* path between two nodes that both contain a variable contains it too.
C1_RunningIntersection ==
    Returned("to_junction_tree") =>
        \A x \in TreeVars : \A a \in result.jt.nodes, b \in result.jt.nodes :
            (x \in a /\ x \in b) =>
                \A c \in result.jt.nodes :
                    OnPath(result.jt.edges, a, b, c) => x \in c

\* C2: the tree to_junction_tree returns has one node per maximal clique of
\* the triangulated graph and one edge fewer, also when there is one clique.
C2_NodeAndEdgeCount ==
    Returned("to_junction_tree") =>
        /\ Cardinality(result.jt.nodes) = Cardinality(result.jt.cliques)
        /\ Cardinality(result.jt.edges) = Cardinality(result.jt.cliques) - 1

\* C3: to_junction_tree raises the incomplete-factorization error and returns
\* no tree whenever the scope of the product of the factors is not the
\* model's node set.
C3_IncompleteFactorizationRaises ==
    (result.op = "to_junction_tree" /\ factors # <<>> /\ ScopeUnion # nodes) =>
        /\ result.err = IncompleteFactorizationError
        /\ result.jt = EmptyTree

\* C4: add_factors(f) raises the scope error iff a variable of f is not a
\* node of the model; when it raises the factor list is unchanged, otherwise
\* f is appended and is among get_factors().
C4_AddFactorsScopeCheck ==
    [][(result'.op = "add_factors" /\ Len(result'.args) = 1) =>
        LET f == result'.args[1]
        IN /\ (result'.err = ScopeError) <=> ~(Range(scope(f)) \subseteq nodes)
           /\ (result'.err = ScopeError) => factors' = factors
           /\ (result'.err # ScopeError) =>
                 /\ result'.err = "none"
                 /\ factors' = Append(factors, f)
                 /\ f \in Range(get_factors')]_vars

\* A single add_factors call was refused for a factor that is partly inside
\* the model, which already holds a factor.
C4_Witness ==
    /\ result.op = "add_factors"
    /\ Len(result.args) = 1
    /\ result.err = ScopeError
    /\ Range(scope(result.args[1])) \cap nodes # {}
    /\ factors # <<>>

\* C5: to_factor_graph makes one factor node per registered factor: as many
\* factor nodes as factors, and no two factors on the same node.
C5_OneFactorNodePerFactor ==
    Returned("to_factor_graph") =>
        /\ Cardinality(Range(result.fg.factor_nodes)) = Len(factors)
        /\ \A i \in DOMAIN factors, j \in DOMAIN factors :
              i # j => result.fg.factor_nodes[i] # result.fg.factor_nodes[j]

\* C6: on a model without factors, to_factor_graph and to_junction_tree both
\* raise the no-factors error and return nothing.
C6_NoFactorsError ==
    (factors = <<>> /\ result.op \in {"to_factor_graph", "to_junction_tree"}) =>
        /\ result.err = NoFactorsError
        /\ result.fg = EmptyGraph
        /\ result.jt = EmptyTree

\* C7: every node of a returned junction tree carries a factor whose scope,
\* as a set, is the node's clique.
C7_NodeFactorScope ==
    Returned("to_junction_tree") =>
        \A node \in result.jt.nodes :
            \E r \in result.jt.factors :
                r.node = node /\ Range(scope(r.factor)) = node

\* C8: in the graph to_factor_graph returns every node is a variable of the
\* model or a factor node, every edge joins a variable to a factor node, and
\* the neighbours of a factor node are exactly the scope of its factor.
C8_FactorGraphShape ==
    Returned("to_factor_graph") =>
        LET fg == result.fg
        IN /\ \A n \in fg.nodes : n \in nodes \/ n \in Range(fg.factor_nodes)
           /\ \A e \in fg.edges :
                 \E x \in nodes, y \in Range(fg.factor_nodes) : e = {x, y}
           /\ \A i \in DOMAIN fg.factors :
                 Neighbors(fg.edges, fg.factor_nodes[i]) = Range(scope(fg.factors[i]))

\* C9: add_edge(u, v) with u # v leaves u and v among the nodes and {u, v}
\* among the edges; add_edge(u, u) raises and changes neither nodes nor
\* edges; so the model never holds a self loop.
C9_AddEdge ==
    /\ [](/\ \A e \in edges : Cardinality(e) = 2
          /\ (result.op = "add_edge" /\ result.u # result.v) =>
                /\ result.err = "none"
                /\ {result.u, result.v} \subseteq nodes
                /\ {result.u, result.v} \in edges
          /\ (result.op = "add_edge" /\ result.u = result.v) =>
                result.err = SelfLoopError)
    /\ [][(result'.op = "add_edge" /\ result'.u = result'.v) =>
            (nodes' = nodes /\ edges' = edges)]_vars

\* A self loop was refused on a model that already has an edge.
C9_Witness ==
    /\ result.op = "add_edge"
    /\ result.u = result.v
    /\ result.err = SelfLoopError
    /\ edges # {}

\* C10: the spanning tree to_junction_tree picks has the largest total
\* shared-variable overlap of all spanning trees of the clique graph.
C10_MaximalOverlap ==
    Returned("to_junction_tree") =>
        \A t \in SpanningTrees(result.jt.cliques, CliquePairs(result.jt.cliques)) :
            Overlap(result.jt.edges) >= Overlap(t)

====
